---- MODULE Spec2Model ----
(***************************************************************************)
(* Session and identity management of the forum application.               *)
(*                                                                         *)
(* The relational store (tables users, sessions, banned_users) and the     *)
(* two package-level variables of homehandlers (oauthStateStringGoogle,    *)
(* registering) are the state.  Every HTTP handler is one action of Spec,  *)
(* which leaves its response in last until EndRequest.  Spec composes the  *)
(* handlers of the session manager, SpecOAuth those of the OAuth bridge,   *)
(* SpecAdmin those of user administration; SpecConc runs the store         *)
(* statements of GetSession, createSession and LogoutHandler one at a time *)
(* on concurrently scheduled workers, SpecIntent the two assignments of    *)
(* the handlers that build an authorization URL.                           *)
(*                                                                         *)
(* Time is an integer clock; one unit is ten minutes, so the ten minute    *)
(* session lifetime is SessionTTL = 1 unit.  time.Now() reads the clock.   *)
(***************************************************************************)
EXTENDS Integers, Sequences, FiniteSets, TLC

VARIABLES
    now,                    \* the value time.Now() returns
    users,                  \* rows of table users
    lastUserId,             \* AUTOINCREMENT counter of users.id
    sessions,               \* rows of table sessions
    banned,                 \* emails in table banned_users
    oauthStateStringGoogle, \* homehandlers.oauthStateStringGoogle (0 is "")
    registering,            \* homehandlers.registering
    passwordNotNull,        \* whether users.password carries NOT NULL in the opened database
    consumed,               \* history: a callback has accepted the pending nonce since it was issued
    issued,                 \* history: tokens handed out in a cookie, in order
    last,                   \* the last request served and its response
    wk                      \* SpecConc: each worker's position and locals

vars == <<now, users, lastUserId, sessions, banned, oauthStateStringGoogle,
          registering, passwordNotNull, consumed, issued, last, wk>>

storeVars == <<users, lastUserId, sessions, banned>>

----------------------------------------------------------------------------
(* Bounds of the model *)

MaxTime == 2        \* the clock stops here
MaxIssued == 2      \* session tokens handed out in one behaviour
MaxNonce == 2       \* Google nonces generated in one behaviour
MaxOps == 2

\* the longest answer of GET /user/emails
MaxEmails == 2

\* the clock of SpecConc stops at MaxConcTime
MaxConcTime == 1

\* DeleteUserHandler is served while users.id has not passed MaxUserId
MaxUserId == 2         \* SpecConc: calls one worker makes in one behaviour

(* Program constants *)

SessionTTL == 1         \* 10 * time.Minute, in units of ten minutes
MinPasswordLen == 6     \* validate.Var(password, "required,min=6")

----------------------------------------------------------------------------
(* Values *)

AdminEmail == "admin@example.com"
Emails == {"a@x.com"}
LoginEmails == Emails \cup {AdminEmail}

\* passwords a form can carry; "abc12" is shorter than MinPasswordLen
Passwords == {"secret1", "abc12"}
AdminPassword == "securepassword"

\* a NULL column is the empty sequence
NULL == <<>>

\* bcrypt.GenerateFromPassword / CompareHashAndPassword: the hash is not the
\* plaintext and verifies exactly the password it was made from
GenerateFromPassword(pw) == <<"bcrypt", pw>>

\* mutant: every password verifies against every hash
CompareHashAndPassword_Always(hash, pw) == TRUE

\* bcrypt.CompareHashAndPassword
CompareHashAndPassword(hash, pw) == hash = <<"bcrypt", pw>>

\* cookie values: a token is <<kind, a, b>>
NoCookie == <<"none", 0, 0>>        \* the request carries no session_token cookie
BogusToken == <<"bogus", 0, 0>>     \* a value the server never issued

\* fmt.Sprintf("session-%d-%d", userID, time.Now().UnixNano())
SessionToken(userID, t) == <<"session", userID, t>>

\* uuid.New().String(): a fresh random value, the n-th one drawn
UuidToken(n) == <<"uuid", n, 0>>

NoSession == [id |-> NoCookie, user_id |-> -1, expiry |-> -1]

ErrNone == "nil"
ErrNoRows == "sql: no rows in result set"
ErrExpired == "session expired"

EmptyToken == <<"", 0, 0>>          \* the "" createSession returns beside an error

----------------------------------------------------------------------------
(* Strings of the OAuth profile: a display name is a sequence of characters *)

DisplayNames == { <<"A", " ", "b">> }
AdminUsername == <<"a", "d", "m", "i", "n">>
FormUsernames == { <<"a", "b">>, AdminUsername }

\* the tags generateRandomString(5) can return
RandomTags == { <<"x">> }

\* strings.ToLower
ToLowerChar(c) == IF c = "A" THEN "a" ELSE IF c = "B" THEN "b" ELSE c

ToLower(str) == [i \in 1..Len(str) |-> ToLowerChar(str[i])]

\* strings.ReplaceAll(str, " ", "")
RECURSIVE RemoveSpaces(_)
RemoveSpaces(str) ==
    IF str = <<>> THEN <<>>
    ELSE IF Head(str) = " " THEN RemoveSpaces(Tail(str))
    ELSE <<Head(str)>> \o RemoveSpaces(Tail(str))

\* strings.ToLower(strings.ReplaceAll(name, " ", "")) + "_" + generateRandomString(5)
TaggedUsername(name, tag) == ToLower(RemoveSpaces(name)) \o <<"_">> \o tag

\* strings.ToLower(strings.ReplaceAll(name, " ", ""))
PlainUsername(name) == ToLower(RemoveSpaces(name))

----------------------------------------------------------------------------
(* Table sessions(id TEXT PRIMARY KEY, user_id, expiry) *)

SessionRows(S, tok) == {s \in S : s.id = tok}

SessionsOf(S, uid) == {s \in S : s.user_id = uid}

\* INSERT INTO sessions (id, user_id, expiry): fails on a duplicate primary key
InsertSession(S, row) ==
    IF SessionRows(S, row.id) # {}
    THEN [ok |-> FALSE, store |-> S]
    ELSE [ok |-> TRUE, store |-> S \cup {row}]

\* mutant: the comparison of the DELETE inverted
DeleteSession_Inverted(S, tok) == {s \in S : s.id = tok}

\* DELETE FROM sessions WHERE id = ?
DeleteSession(S, tok) == {s \in S : s.id # tok}

\* mutant: the DELETE is not restricted to the user
DeleteOtherSessions_AllUsers(S, uid, tok) == {s \in S : s.id = tok}

\* mutant: the sibling rows are left in place
DeleteOtherSessions_Skipped(S, uid, tok) == S

\* DELETE FROM sessions WHERE user_id = ? AND id <> ?
DeleteOtherSessions(S, uid, tok) == {s \in S : ~(s.user_id = uid /\ s.id # tok)}

\* mutant: the UPDATE inserts the row when it matches none
UpdateExpiry_Upsert(S, tok, e) ==
    {s \in S : s.id # tok} \cup {[id |-> tok, user_id |-> tok[2], expiry |-> e]}

\* UPDATE sessions SET expiry = ? WHERE id = ?
UpdateExpiry(S, tok, e) ==
    {IF s.id = tok THEN [s EXCEPT !.expiry = e] ELSE s : s \in S}

\* mutant: the operands of Before swapped
IsExpired_Swapped(expiry, t) == t < expiry

\* session.Expiry.Before(time.Now())
IsExpired(expiry, t) == expiry < t

\* GetSession(r): the session, the error and the table it leaves
GetSession(S, cookie, t) ==
    IF cookie = NoCookie
    THEN [session |-> NoSession, err |-> ErrNone, store |-> S]
    ELSE IF SessionRows(S, cookie) = {}
    THEN [session |-> NoSession, err |-> ErrNoRows, store |-> S]
    ELSE LET row == CHOOSE s \in S : s.id = cookie
         IN  IF IsExpired(row.expiry, t)
             THEN [session |-> NoSession, err |-> ErrExpired, store |-> S]
             ELSE LET newExpiry == t + SessionTTL
                      S1 == DeleteOtherSessions(S, row.user_id, cookie)
                      S2 == UpdateExpiry(S1, cookie, newExpiry)
                  IN  [session |-> [row EXCEPT !.expiry = newExpiry],
                       err |-> ErrNone, store |-> S2]

\* createSession(userID): the token, whether the INSERT went through, the table
createSession(S, userID, t) ==
    LET sessionToken == SessionToken(userID, t)
        ins == InsertSession(S, [id |-> sessionToken, user_id |-> userID,
                                 expiry |-> t + SessionTTL])
    IN  [token |-> IF ins.ok THEN sessionToken ELSE EmptyToken,
         ok |-> ins.ok, store |-> ins.store]

----------------------------------------------------------------------------
(* Table users(id AUTOINCREMENT, email UNIQUE, username UNIQUE, password, role) *)

\* mutant: the lookup by email finds nothing
UsersByEmail_None(U, email) == {}

\* SELECT ... FROM users WHERE email = ?
UsersByEmail(U, email) == {u \in U : u.email = email}

UsersById(U, id) == {u \in U : u.id = id}

\* mutant: the column email carries no UNIQUE constraint
InsertUser_EmailNotUnique(U, lastId, notNull, email, username, password) ==
    IF \/ \E u \in U : u.username = username
       \/ (notNull /\ password = NULL)
    THEN [ok |-> FALSE, users |-> U, lastId |-> lastId, id |-> 0]
    ELSE [ok |-> TRUE,
          users |-> U \cup {[id |-> lastId + 1, email |-> email,
                             username |-> username, password |-> password,
                             role |-> "user"]},
          lastId |-> lastId + 1, id |-> lastId + 1]

\* INSERT INTO users (email, username[, password]); role takes DEFAULT 'user'
InsertUser(U, lastId, notNull, email, username, password) ==
    IF \/ \E u \in U : u.email = email \/ u.username = username
       \/ (notNull /\ password = NULL)
    THEN [ok |-> FALSE, users |-> U, lastId |-> lastId, id |-> 0]
    ELSE [ok |-> TRUE,
          users |-> U \cup {[id |-> lastId + 1, email |-> email,
                             username |-> username, password |-> password,
                             role |-> "user"]},
          lastId |-> lastId + 1, id |-> lastId + 1]

\* getOrCreateUser(email, username): (userID, err) and the table
getOrCreateUser(U, lastId, notNull, email, username) ==
    IF UsersByEmail(U, email) # {}
    THEN [ok |-> TRUE, users |-> U, lastId |-> lastId,
          id |-> (CHOOSE u \in U : u.email = email).id]
    ELSE InsertUser(U, lastId, notNull, email, username, NULL)

\* mutant: no email is reported as banned
checkIfBanned_Never(B, email) == FALSE

\* checkIfBanned(email)
checkIfBanned(B, email) == email \in B

\* mutant: every user that has a row counts as an admin
CheckIfAdmin_AnyRow(U, userID) ==
    [isAdmin |-> UsersById(U, userID) # {}, err |-> ErrNone]

\* CheckIfAdmin(userID): (isAdmin, err); sql.ErrNoRows becomes (false, nil)
CheckIfAdmin(U, userID) ==
    LET rows == UsersById(U, userID)
    IN  IF rows = {}
        THEN [isAdmin |-> FALSE, err |-> ErrNone]
        ELSE [isAdmin |-> (CHOOSE u \in rows : TRUE).role = "admin", err |-> ErrNone]

\* UPDATE users SET email = ?, username = ?, role = ? WHERE id = ?: fails when
\* another row holds the email or the username, changes nothing without a row
UpdateUser(U, userID, email, username, role) ==
    LET rows == UsersById(U, userID)
        others == U \ rows
    IN  IF rows = {}
        THEN [ok |-> TRUE, users |-> U]
        ELSE IF \E u \in others : u.email = email \/ u.username = username
        THEN [ok |-> FALSE, users |-> U]
        ELSE [ok |-> TRUE,
              users |-> others \cup {[u EXCEPT !.email = email, !.username = username,
                                               !.role = role] : u \in rows}]

----------------------------------------------------------------------------
(* Requests and responses *)

Workers == {"w1", "w2"}

\* the email, username and password a registration call works on
NoForm == [email |-> "", username |-> <<>>, password |-> NULL]

IdleWorker == [pc |-> "idle", op |-> "none", tok |-> NoCookie, uid |-> 0,
               row |-> NoSession, res |-> NoSession, err |-> ErrNone,
               overlap |-> FALSE, ops |-> 0, intent |-> FALSE, state |-> -1,
               form |-> NoForm]

IssuedTokens == {issued[i].tok : i \in 1..Len(issued)}

\* what a request's session_token cookie can hold
Cookies == {NoCookie, BogusToken} \cup IssuedTokens

\* what the provider's token exchange and user-info call hand back
Identities == [ok : {TRUE}, email : Emails, name : DisplayNames]
ExchangeFailed == [ok |-> FALSE, email |-> "", name |-> <<>>]
Exchanges == Identities \cup {ExchangeFailed}

\* a URL path is the sequence of its segments: <<>> is "/"
RootPath == <<>>

\* the default path of a cookie set without a Path attribute: the path of the
\* request up to its last "/"
DefaultPath(uri) == SubSeq(uri, 1, Len(uri) - 1)

NoExpires == -1   \* the cookie carries no Expires attribute

NoAttrs == [path |-> RootPath, httpOnly |-> FALSE, expires |-> NoExpires]

\* http.Cookie{Path: "/", HttpOnly: true}, as set after createSession
SessionCookie == [path |-> RootPath, httpOnly |-> TRUE, expires |-> NoExpires]

\* http.Cookie{Expires: expiresAt, HttpOnly: true}, as set by POST /login
LoginCookie(expiresAt) ==
    [path |-> DefaultPath(<<"login">>), httpOnly |-> TRUE, expires |-> expiresAt]

\* no call to the GitHub API was made for the request
NoGitHub == [profile |-> "", emails |-> <<>>, calls |-> 0]

NoGS == [session |-> NoSession, err |-> ErrNone, store |-> {}]

NoRequest ==
    [h |-> "none", cookie |-> NoCookie, sess |-> NoSession, err |-> ErrNone,
     status |-> 0, loc |-> "", setCookie |-> NoCookie, state |-> -1,
     loggedIn |-> FALSE, email |-> "", identity |-> "", target |-> 0,
     attrs |-> NoAttrs, gh |-> NoGitHub, password |-> ""]

\* the response of handler h to a request carrying cookie, after GetSession gave gs
Resp(h, cookie, gs, status, loc, setc) ==
    [NoRequest EXCEPT !.h = h, !.cookie = cookie, !.sess = gs.session,
                      !.err = gs.err, !.status = status, !.loc = loc,
                      !.setCookie = setc]

\* the same for a request whose form names an email
RespFor(email, h, cookie, gs, status, loc, setc) ==
    [Resp(h, cookie, gs, status, loc, setc) EXCEPT !.email = email]

StatusPanic == 0   \* the handler panicked: net/http drops the connection

\* the history of tokens handed out
Issue(tok, uid) == issued' = Append(issued, [tok |-> tok, user_id |-> uid])

CanIssue == Len(issued) < MaxIssued

\* no request is being served: last holds a response until its handler returns
Idle == last = NoRequest

----------------------------------------------------------------------------
Init ==
    /\ now = 0
    /\ users = {[id |-> 1, email |-> AdminEmail, username |-> AdminUsername,
                 password |-> GenerateFromPassword(AdminPassword),
                 role |-> "admin"]}
    /\ lastUserId = 1
    /\ sessions = {}
    /\ banned = {}
    /\ oauthStateStringGoogle = 0
    /\ registering = FALSE
    /\ passwordNotNull \in BOOLEAN
    /\ consumed = FALSE
    /\ issued = <<>>
    /\ last = NoRequest
    /\ wk = [w \in Workers |-> IdleWorker]

\* the clock advances between requests
Tick ==
    /\ Idle
    /\ now < MaxTime
    /\ now' = now + 1
    /\ UNCHANGED <<storeVars, oauthStateStringGoogle, registering,
                   passwordNotNull, consumed, issued, last, wk>>

\* the response has been written: the handler returns
EndRequest ==
    /\ ~Idle
    /\ last' = NoRequest
    /\ UNCHANGED <<now, storeVars, oauthStateStringGoogle, registering,
                   passwordNotNull, consumed, issued, wk>>

\* HomeHandler: GET /
HomeHandler ==
    /\ Idle
    /\ \E cookie \in Cookies :
        LET gs == GetSession(sessions, cookie, now)
        IN  /\ sessions' = gs.store
            /\ last' = IF gs.err # ErrNone
                       THEN Resp("HomeHandler", cookie, gs, 500, "", NoCookie)
                       ELSE [Resp("HomeHandler", cookie, gs, 200, "", NoCookie)
                                EXCEPT !.loggedIn = (gs.session # NoSession)]
            /\ UNCHANGED <<now, users, lastUserId, banned, oauthStateStringGoogle,
                           registering, passwordNotNull, consumed, issued, wk>>

\* MyProfileHandler: GET /myprofil
MyProfileHandler ==
    /\ Idle
    /\ \E cookie \in Cookies :
        LET gs == GetSession(sessions, cookie, now)
        IN  /\ sessions' = gs.store
            /\ last' = IF gs.err # ErrNone \/ gs.session = NoSession
                       THEN Resp("MyProfileHandler", cookie, gs, 303, "/login", NoCookie)
                       ELSE IF UsersById(users, gs.session.user_id) = {}
                       THEN Resp("MyProfileHandler", cookie, gs, 500, "", NoCookie)
                       ELSE [Resp("MyProfileHandler", cookie, gs, 200, "", NoCookie)
                                EXCEPT !.loggedIn = TRUE]
            /\ UNCHANGED <<now, users, lastUserId, banned, oauthStateStringGoogle,
                           registering, passwordNotNull, consumed, issued, wk>>

\* LogoutHandler: /logout
LogoutHandler ==
    /\ Idle
    /\ \E cookie \in Cookies :
        /\ sessions' = IF cookie = NoCookie THEN sessions
                       ELSE DeleteSession(sessions, cookie)
        /\ last' = Resp("LogoutHandler", cookie, NoGS, 303, "/",
                        IF cookie = NoCookie THEN NoCookie ELSE EmptyToken)
        /\ UNCHANGED <<now, users, lastUserId, banned, oauthStateStringGoogle,
                       registering, passwordNotNull, consumed, issued, wk>>

\* the session GetSession found is live: the handler redirects to /
AlreadyLoggedIn(gs) == gs.err = ErrNone /\ gs.session # NoSession

\* LoginHandler, GET /login: the login page
LoginPage ==
    /\ Idle
    /\ \E cookie \in Cookies :
        LET gs == GetSession(sessions, cookie, now)
        IN  /\ sessions' = gs.store
            /\ last' = IF AlreadyLoggedIn(gs)
                       THEN Resp("LoginHandler", cookie, gs, 303, "/", NoCookie)
                       ELSE Resp("LoginHandler", cookie, gs, 200, "", NoCookie)
            /\ UNCHANGED <<now, users, lastUserId, banned, oauthStateStringGoogle,
                           registering, passwordNotNull, consumed, issued, wk>>

\* LoginHandler, POST /login with email and password
LoginHandler ==
    /\ Idle
    /\ \E cookie \in Cookies, email \in LoginEmails,
       password \in {"secret1", AdminPassword} :
        LET gs == GetSession(sessions, cookie, now)
            found == UsersByEmail(users, email)
            u == CHOOSE x \in found : TRUE
            sessionToken == UuidToken(Len(issued) + 1)
            expiresAt == now + SessionTTL
            ins == InsertSession(gs.store, [id |-> sessionToken, user_id |-> u.id,
                                            expiry |-> expiresAt])
            resp(status, loc, setc) ==
                [RespFor(email, "LoginHandler", cookie, gs, status, loc, setc)
                    EXCEPT !.password = password]
        IN  /\ UNCHANGED <<now, users, lastUserId, banned, oauthStateStringGoogle,
                           registering, passwordNotNull, consumed, wk>>
            /\ IF AlreadyLoggedIn(gs)
               THEN /\ sessions' = gs.store
                    /\ last' = RespFor(email, "LoginHandler", cookie, gs, 303, "/", NoCookie)
                    /\ UNCHANGED issued
               ELSE IF checkIfBanned(banned, email)
               THEN /\ last' = resp(200, "banned", NoCookie)
                    /\ UNCHANGED <<sessions, issued>>
               ELSE IF found = {}
               THEN /\ last' = resp(200, "invalid", NoCookie)
                    /\ UNCHANGED <<sessions, issued>>
               ELSE IF u.password = NULL
               THEN \* Scan of a NULL password into a string fails
                    /\ last' = resp(500, "", NoCookie)
                    /\ UNCHANGED <<sessions, issued>>
               ELSE IF ~CompareHashAndPassword(u.password, password)
               THEN /\ last' = resp(200, "invalid", NoCookie)
                    /\ UNCHANGED <<sessions, issued>>
               ELSE /\ CanIssue
                    /\ sessions' = ins.store
                    /\ Issue(sessionToken, u.id)
                    /\ last' = [resp(303, "/", sessionToken)
                                   EXCEPT !.attrs = LoginCookie(expiresAt)]

\* LoginHandler, POST /login with google_oauth=true and an authorization code
LoginHandlerGoogleOAuth ==
    /\ Idle
    /\ \E cookie \in Cookies, email \in LoginEmails, ex \in Exchanges :
        LET gs == GetSession(sessions, cookie, now)
            \* getGoogleUserByEmail: 0 and no error when no row matches
            found == {x \in UsersByEmail(users, ex.email) : x.password = NULL}
            userID == IF found = {} THEN 0 ELSE (CHOOSE x \in found : TRUE).id
            cs == createSession(gs.store, userID, now)
        IN  /\ UNCHANGED <<now, users, lastUserId, banned, oauthStateStringGoogle,
                           registering, passwordNotNull, consumed, wk>>
            /\ IF AlreadyLoggedIn(gs)
               THEN /\ sessions' = gs.store
                    /\ last' = RespFor(email, "LoginHandler", cookie, gs, 303, "/", NoCookie)
                    /\ UNCHANGED issued
               ELSE IF checkIfBanned(banned, email)
               THEN /\ last' = RespFor(email, "LoginHandler", cookie, gs, 200, "banned", NoCookie)
                    /\ UNCHANGED <<sessions, issued>>
               ELSE IF ~ex.ok
               THEN /\ last' = RespFor(email, "LoginHandler", cookie, gs, 500, "", NoCookie)
                    /\ UNCHANGED <<sessions, issued>>
               ELSE IF ~cs.ok
               THEN /\ last' = [RespFor(email, "LoginHandler", cookie, gs, 500, "", NoCookie)
                                   EXCEPT !.identity = ex.email]
                    /\ UNCHANGED <<sessions, issued>>
               ELSE /\ CanIssue
                    /\ sessions' = cs.store
                    /\ Issue(cs.token, userID)
                    /\ last' = [RespFor(email, "LoginHandler", cookie, gs,
                                        303, "/myprofil", cs.token)
                                   EXCEPT !.identity = ex.email, !.attrs = SessionCookie]

\* RegisterHandler, POST /register with email, username and password
RegisterHandler ==
    /\ Idle
    /\ \E cookie \in Cookies, email \in Emails, username \in FormUsernames,
       password \in Passwords :
        LET gs == GetSession(sessions, cookie, now)
            ins == InsertUser(users, lastUserId, passwordNotNull, email, username,
                              GenerateFromPassword(password))
            \* saveUser leaves user.ID at its zero value
            cs == createSession(gs.store, 0, now)
        IN  /\ UNCHANGED <<now, banned, oauthStateStringGoogle, registering,
                           passwordNotNull, consumed, wk>>
            /\ IF AlreadyLoggedIn(gs)
               THEN /\ sessions' = gs.store
                    /\ last' = RespFor(email, "RegisterHandler", cookie, gs, 303, "/", NoCookie)
                    /\ UNCHANGED <<users, lastUserId, issued>>
               ELSE IF UsersByEmail(users, email) # {}
               THEN /\ last' = RespFor(email, "RegisterHandler", cookie, gs, 200,
                                    "user already exists", NoCookie)
                    /\ UNCHANGED <<users, lastUserId, sessions, issued>>
               ELSE IF \E x \in users : x.username = username
               THEN \* registerError panics
                    /\ last' = RespFor(email, "RegisterHandler", cookie, gs,
                                       StatusPanic, "", NoCookie)
                    /\ UNCHANGED <<users, lastUserId, sessions, issued>>
               ELSE IF Len(password) < MinPasswordLen
               THEN /\ last' = RespFor(email, "RegisterHandler", cookie, gs,
                                       200, "password", NoCookie)
                    /\ UNCHANGED <<users, lastUserId, sessions, issued>>
               ELSE IF ~ins.ok
               THEN /\ last' = RespFor(email, "RegisterHandler", cookie, gs,
                                       200, "insert", NoCookie)
                    /\ UNCHANGED <<users, lastUserId, sessions, issued>>
               ELSE IF ~cs.ok
               THEN /\ users' = ins.users
                    /\ lastUserId' = ins.lastId
                    /\ last' = RespFor(email, "RegisterHandler", cookie, gs,
                                       200, "session", NoCookie)
                    /\ UNCHANGED <<sessions, issued>>
               ELSE /\ CanIssue
                    /\ users' = ins.users
                    /\ lastUserId' = ins.lastId
                    /\ sessions' = cs.store
                    /\ Issue(cs.token, 0)
                    /\ last' = [RespFor(email, "RegisterHandler", cookie, gs,
                                        303, "/myprofil", cs.token)
                                   EXCEPT !.attrs = SessionCookie]

\* RegisterHandler, POST /register with google_oauth=true and an authorization code
RegisterHandlerGoogleOAuth ==
    /\ Idle
    /\ \E cookie \in Cookies, email \in Emails, ex \in Exchanges, tag \in RandomTags :
        LET gs == GetSession(sessions, cookie, now)
            ins == InsertUser(users, lastUserId, passwordNotNull, ex.email,
                              TaggedUsername(ex.name, tag), NULL)
            cs == createSession(gs.store, 0, now)
        IN  /\ UNCHANGED <<now, banned, oauthStateStringGoogle, registering,
                           passwordNotNull, consumed, wk>>
            /\ IF AlreadyLoggedIn(gs)
               THEN /\ sessions' = gs.store
                    /\ last' = RespFor(email, "RegisterHandler", cookie, gs, 303, "/", NoCookie)
                    /\ UNCHANGED <<users, lastUserId, issued>>
               ELSE IF UsersByEmail(users, email) # {}
               THEN /\ last' = RespFor(email, "RegisterHandler", cookie, gs, 200,
                                    "user already exists", NoCookie)
                    /\ UNCHANGED <<users, lastUserId, sessions, issued>>
               ELSE IF ~ex.ok
               THEN /\ last' = RespFor(email, "RegisterHandler", cookie, gs,
                                       200, "exchange", NoCookie)
                    /\ UNCHANGED <<users, lastUserId, sessions, issued>>
               ELSE IF ~ins.ok
               THEN /\ last' = RespFor(email, "RegisterHandler", cookie, gs,
                                       200, "insert", NoCookie)
                    /\ UNCHANGED <<users, lastUserId, sessions, issued>>
               ELSE IF ~cs.ok
               THEN /\ users' = ins.users
                    /\ lastUserId' = ins.lastId
                    /\ last' = RespFor(email, "RegisterHandler", cookie, gs,
                                       200, "session", NoCookie)
                    /\ UNCHANGED <<sessions, issued>>
               ELSE /\ CanIssue
                    /\ users' = ins.users
                    /\ lastUserId' = ins.lastId
                    /\ sessions' = cs.store
                    /\ Issue(cs.token, 0)
                    /\ last' = [RespFor(email, "RegisterHandler", cookie, gs,
                                        303, "/myprofil", cs.token)
                                   EXCEPT !.attrs = SessionCookie]

\* generateNonce(): a value not handed out before
generateNonce(pending) == pending + 1

\* HandleGoogleLogin, HandleGoogleRegister and HandleGitHubLogin all write the
\* two package variables and redirect to the Google authorization URL
BuildAuthorizationURL(h, intent) ==
    /\ Idle
    /\ oauthStateStringGoogle < MaxNonce
    /\ registering' = intent
    /\ oauthStateStringGoogle' = generateNonce(oauthStateStringGoogle)
    /\ last' = [Resp(h, NoCookie, NoGS, 307, "google", NoCookie)
                   EXCEPT !.state = oauthStateStringGoogle']
    /\ consumed' = FALSE
    /\ UNCHANGED <<now, storeVars, passwordNotNull, issued, wk>>

HandleGoogleLogin == BuildAuthorizationURL("HandleGoogleLogin", FALSE)

HandleGoogleRegister == BuildAuthorizationURL("HandleGoogleRegister", TRUE)

HandleGitHubLogin == BuildAuthorizationURL("HandleGitHubLogin", FALSE)

\* HandleFacebookLogin: redirects with the fixed state "state-token"
HandleFacebookLogin ==
    /\ Idle
    /\ last' = Resp("HandleFacebookLogin", NoCookie, NoGS, 307, "facebook", NoCookie)
    /\ UNCHANGED <<now, storeVars, oauthStateStringGoogle, registering,
                   passwordNotNull, consumed, issued, wk>>

\* mutant: the state test left out, as in the GitHub and Facebook callbacks
StateMismatch_Skipped(presented, pending) == FALSE

\* mutant: every nonce handed out so far is still accepted
StateMismatch_EarlierAccepted(presented, pending) == presented > pending

\* r.FormValue("state") != oauthStateStringGoogle
StateMismatch(presented, pending) == presented # pending

\* the branch on registering shared by HandleGoogleCallback and
\* HandleGitHubCallback once email and username are known
CompleteExchange(h, presented, ex, username) ==
    LET found == UsersByEmail(users, ex.email)
        base == [RespFor(ex.email, h, NoCookie, NoGS, 0, "", NoCookie)
                    EXCEPT !.state = presented, !.identity = ex.email]
    IN  IF ~ex.ok
        THEN /\ last' = [base EXCEPT !.status = 500]
             /\ UNCHANGED <<storeVars, issued>>
        ELSE IF registering
        THEN IF found # {}
             THEN /\ last' = [base EXCEPT !.status = 200, !.loc = "user already exists"]
                  /\ UNCHANGED <<storeVars, issued>>
             ELSE \* both errors are dropped: userId, _ := ...; sessionToken, _ := ...
                  LET goc == getOrCreateUser(users, lastUserId, passwordNotNull,
                                             ex.email, username)
                      cs == createSession(sessions, goc.id, now)
                  IN  /\ cs.ok => CanIssue
                      /\ users' = goc.users
                      /\ lastUserId' = goc.lastId
                      /\ sessions' = cs.store
                      /\ issued' = IF cs.ok
                                   THEN Append(issued, [tok |-> cs.token, user_id |-> goc.id])
                                   ELSE issued
                      /\ last' = [base EXCEPT !.status = 307, !.loc = "/myprofil",
                                              !.setCookie = cs.token,
                                              !.attrs = SessionCookie]
                      /\ UNCHANGED banned
        ELSE IF found = {}
             THEN /\ last' = [base EXCEPT !.status = 401]
                  /\ UNCHANGED <<storeVars, issued>>
             ELSE LET userID == (CHOOSE x \in found : TRUE).id
                      cs == createSession(sessions, userID, now)
                  IN  IF ~cs.ok
                      THEN /\ last' = [base EXCEPT !.status = 500]
                           /\ UNCHANGED <<storeVars, issued>>
                      ELSE /\ CanIssue
                           /\ sessions' = cs.store
                           /\ Issue(cs.token, userID)
                           /\ last' = [base EXCEPT !.status = 303, !.loc = "/",
                                                   !.setCookie = cs.token,
                                              !.attrs = SessionCookie]
                           /\ UNCHANGED <<users, lastUserId, banned>>

\* the body of HandleGoogleCallback for one state value and one exchange
GoogleCallback(presented, ex) ==
    /\ UNCHANGED <<now, oauthStateStringGoogle, registering, passwordNotNull>>
    /\ consumed' = (consumed \/ ~StateMismatch(presented, oauthStateStringGoogle))
    /\ IF StateMismatch(presented, oauthStateStringGoogle)
       THEN /\ last' = [Resp("HandleGoogleCallback", NoCookie, NoGS, 307, "/", NoCookie)
                           EXCEPT !.state = presented]
            /\ UNCHANGED <<storeVars, issued>>
       ELSE CompleteExchange("HandleGoogleCallback", presented, ex,
                             PlainUsername(ex.name))

\* HandleGoogleCallback: GET /google/callback?state=..&code=..
HandleGoogleCallback ==
    /\ Idle
    /\ \E presented \in 0..MaxNonce, ex \in Exchanges : GoogleCallback(presented, ex)
    /\ UNCHANGED wk

\* HandleGitHubCallback: GET /github/callback?code=..
HandleGitHubCallback ==
    /\ Idle
    /\ \E ex \in Exchanges, tag \in RandomTags :
        /\ UNCHANGED <<now, oauthStateStringGoogle, registering, passwordNotNull,
                       consumed, wk>>
        /\ CompleteExchange("HandleGitHubCallback", -1, ex, TaggedUsername(ex.name, tag))

\* HandleFacebookCallback: GET /facebook/callback?code=..
HandleFacebookCallback ==
    /\ Idle
    /\ \E ex \in Exchanges, tag \in RandomTags :
        LET goc == getOrCreateUser(users, lastUserId, passwordNotNull, ex.email,
                                   TaggedUsername(ex.name, tag))
            cs == createSession(sessions, goc.id, now)
            h == "HandleFacebookCallback"
        IN  /\ UNCHANGED <<now, banned, oauthStateStringGoogle, registering,
                           passwordNotNull, consumed, wk>>
            /\ IF ~ex.ok \/ ~goc.ok
               THEN /\ last' = Resp(h, NoCookie, NoGS, 500, "", NoCookie)
                    /\ UNCHANGED <<users, lastUserId, sessions, issued>>
               ELSE IF ~cs.ok
               THEN /\ users' = goc.users
                    /\ lastUserId' = goc.lastId
                    /\ last' = Resp(h, NoCookie, NoGS, 500, "", NoCookie)
                    /\ UNCHANGED <<sessions, issued>>
               ELSE /\ CanIssue
                    /\ users' = goc.users
                    /\ lastUserId' = goc.lastId
                    /\ sessions' = cs.store
                    /\ Issue(cs.token, goc.id)
                    /\ last' = [Resp(h, NoCookie, NoGS, 307, "/myprofil", cs.token)
                                   EXCEPT !.attrs = SessionCookie]

\* the statement of DeleteUserHandler that returns an error, if any
TxFailures == {"none", "begin", "delete", "insert", "commit"}

\* tx.Exec("DELETE FROM users WHERE id = ?", userID)
TxDeleteUser(tx, userID) == [tx EXCEPT !.users = {u \in @ : u.id # userID}]

\* mutant: the new entry replaces the list
TxInsertBanned_Replaces(tx, email) == [tx EXCEPT !.banned = {email}]

\* tx.Exec("INSERT INTO banned_users (email) VALUES (?)", user.Email)
TxInsertBanned(tx, email) == [tx EXCEPT !.banned = @ \cup {email}]

\* mutant: the rollback keeps what the transaction wrote so far
Rollback_KeepsWrites(db, tx) == tx

\* tx.Rollback(), and a Commit that failed: the tables are as before Begin
Rollback(db, tx) == db

\* tx.Commit()
Commit(db, tx) == tx

\* DeleteUserHandler: /users/delete/{id}; the cookie of the request is not read
DeleteUserHandler ==
    /\ Idle
    /\ lastUserId <= MaxUserId
    /\ \E cookie \in Cookies, userID \in 0..lastUserId, fail \in TxFailures :
        LET found == UsersById(users, userID)
            user == CHOOSE u \in found : TRUE
            db == [users |-> users, banned |-> banned]
            tx1 == TxDeleteUser(db, userID)
            tx2 == TxInsertBanned(tx1, user.email)
            \* a statement that fails writes nothing
            after == IF fail = "delete" THEN Rollback(db, db)
                     ELSE IF fail = "insert" THEN Rollback(db, tx1)
                     ELSE IF fail = "commit" THEN Rollback(db, tx2)
                     ELSE Commit(db, tx2)
            base == [Resp("DeleteUserHandler", cookie, NoGS, 0, "", NoCookie)
                        EXCEPT !.target = userID]
        IN  /\ UNCHANGED <<now, lastUserId, sessions, oauthStateStringGoogle, registering,
                           passwordNotNull, consumed, issued, wk>>
            /\ IF found = {}
               THEN /\ last' = [base EXCEPT !.status = 404]
                    /\ UNCHANGED <<users, banned>>
               ELSE IF fail = "begin"
               THEN /\ last' = [base EXCEPT !.status = 500, !.email = user.email]
                    /\ UNCHANGED <<users, banned>>
               ELSE /\ users' = after.users
                    /\ banned' = after.banned
                    /\ last' = IF fail = "none"
                               THEN [base EXCEPT !.status = 303, !.loc = "/admin",
                                                 !.email = user.email]
                               ELSE [base EXCEPT !.status = 500, !.email = user.email]

\* AdminHandler: GET /admin
AdminHandler ==
    /\ Idle
    /\ \E cookie \in Cookies :
        LET gs == GetSession(sessions, cookie, now)
            ck == CheckIfAdmin(users, gs.session.user_id)
        IN  /\ sessions' = gs.store
            /\ last' = IF gs.err # ErrNone \/ gs.session = NoSession
                       THEN Resp("AdminHandler", cookie, gs, 303, "/login", NoCookie)
                       ELSE IF ck.err # ErrNone \/ ~ck.isAdmin
                       THEN Resp("AdminHandler", cookie, gs, 403, "/", NoCookie)
                       ELSE [Resp("AdminHandler", cookie, gs, 200, "", NoCookie)
                                EXCEPT !.loggedIn = TRUE]
            /\ UNCHANGED <<now, users, lastUserId, banned, oauthStateStringGoogle,
                           registering, passwordNotNull, consumed, issued, wk>>

\* what the role field of the edit form can carry
Roles == {"user", "admin", "moderator"}

\* UpdateUserHandler: /users/update/{id}; the cookie of the request is not read
UpdateUserHandler ==
    /\ Idle
    /\ \E cookie \in Cookies, userID \in 0..lastUserId, email \in LoginEmails,
       username \in FormUsernames, role \in Roles :
        LET upd == UpdateUser(users, userID, email, username, role)
            base == [RespFor(email, "UpdateUserHandler", cookie, NoGS, 0, "", NoCookie)
                        EXCEPT !.target = userID]
        IN  /\ users' = upd.users
            /\ last' = IF upd.ok
                       THEN [base EXCEPT !.status = 303, !.loc = "/admin"]
                       ELSE [base EXCEPT !.status = 500]
            /\ UNCHANGED <<now, lastUserId, sessions, banned, oauthStateStringGoogle,
                           registering, passwordNotNull, consumed, issued, wk>>

\* what GET /user can carry in "email", and the entries of GET /user/emails
GitHubProfileEmails == {"", "a@x.com"}

GitHubEmailEntries ==
    [email : {"a@x.com", "b@x.com"}, primary : BOOLEAN, verified : BOOLEAN]

GitHubEmailLists ==
    UNION {[1..n -> GitHubEmailEntries] : n \in 0..MaxEmails}

\* mutant: the verified flag is not looked at
SelectEmail_PrimaryOnly(emails, i) ==
    IF \E k \in i..Len(emails) : emails[k].primary
    THEN emails[CHOOSE k \in i..Len(emails) :
                    /\ emails[k].primary
                    /\ \A j \in i..(k - 1) : ~emails[j].primary].email
    ELSE ""

\* for _, e := range emails { if e.Primary && e.Verified { ...; break } }
RECURSIVE SelectEmail(_, _)
SelectEmail(emails, i) ==
    IF i > Len(emails) THEN ""
    ELSE IF emails[i].primary /\ emails[i].verified THEN emails[i].email
    ELSE SelectEmail(emails, i + 1)

\* getEmailAndNameFromGitHub: the email, and the calls made to /user/emails
getEmailAndNameFromGitHub(profileEmail, emails) ==
    IF profileEmail # ""
    THEN [email |-> profileEmail, calls |-> 0]
    ELSE [email |-> SelectEmail(emails, 1), calls |-> 1]

\* HandleGitHubCallback up to the return of getEmailAndNameFromGitHub
GitHubUserInfo ==
    /\ Idle
    /\ \E profileEmail \in GitHubProfileEmails, emails \in GitHubEmailLists :
        LET got == getEmailAndNameFromGitHub(profileEmail, emails)
        IN  last' = [NoRequest EXCEPT
                        !.h = "getEmailAndNameFromGitHub",
                        !.identity = got.email,
                        !.gh = [profile |-> profileEmail, emails |-> emails,
                                calls |-> got.calls]]
    /\ UNCHANGED <<now, storeVars, oauthStateStringGoogle, registering,
                   passwordNotNull, consumed, issued, wk>>

\* The session manager: every handler that validates a cookie, creates a
\* session or deletes one, with the federated flows that need no pending nonce
Next ==
    \/ Tick
    \/ EndRequest
    \/ HomeHandler
    \/ MyProfileHandler
    \/ LoginPage
    \/ LoginHandler
    \/ LoginHandlerGoogleOAuth
    \/ RegisterHandler
    \/ RegisterHandlerGoogleOAuth
    \/ LogoutHandler
    \/ HandleFacebookLogin
    \/ HandleFacebookCallback

Spec == Init /\ [][Next]_vars

\* The OAuth bridge: the handlers that issue the pending nonce and the intent,
\* the provider callbacks, and the handlers that validate or drop the session
\* a callback created
NextOAuth ==
    \/ Tick
    \/ EndRequest
    \/ HandleGoogleLogin
    \/ HandleGoogleRegister
    \/ HandleGitHubLogin
    \/ HandleFacebookLogin
    \/ HandleGoogleCallback
    \/ HandleGitHubCallback
    \/ HandleFacebookCallback
    \/ RegisterHandler
    \/ HomeHandler
    \/ LogoutHandler

SpecOAuth == Init /\ [][NextOAuth]_vars

\* User administration: accounts are registered, logged in to, deleted and
\* banned
NextAdmin ==
    \/ Tick
    \/ EndRequest
    \/ RegisterHandler
    \/ LoginHandler
    \/ DeleteUserHandler

SpecAdmin == Init /\ [][NextAdmin]_vars

\* Roles: accounts are registered, logged in to and edited, and the admin
\* page is requested
NextRoles ==
    \/ EndRequest
    \/ RegisterHandler
    \/ LoginHandler
    \/ AdminHandler
    \/ UpdateUserHandler

SpecRoles == Init /\ [][NextRoles]_vars

\* The GitHub profile fetch on every answer of the two API calls
NextGitHub ==
    \/ EndRequest
    \/ GitHubUserInfo

SpecGitHub == Init /\ [][NextGitHub]_vars

----------------------------------------------------------------------------
(* SpecConc: two workers run createSession, GetSession and the DELETE of     *)
(* LogoutHandler concurrently; every store statement is one step.            *)

ConcUserIDs == {0, 1}

Other(w) == CHOOSE v \in Workers : v # w

InFlight(w) == wk[w].pc \notin {"idle", "done"}

\* tokens a worker can present: one some createSession call can have made
ConcCookies == {SessionToken(u, t) : u \in ConcUserIDs, t \in 0..MaxConcTime}

concFrame == <<users, lastUserId, banned, oauthStateStringGoogle, registering,
               passwordNotNull, consumed, issued, last>>

\* a worker picks up a call; overlap records that the other call is in flight
Begin(w, op, pc, tok, uid, row) ==
    /\ wk[w].pc = "idle"
    /\ wk[w].ops < MaxOps
    /\ wk' = [wk EXCEPT ![w] = [IdleWorker EXCEPT
                                   !.pc = pc, !.op = op, !.tok = tok, !.uid = uid,
                                   !.row = row, !.overlap = InFlight(Other(w)),
                                   !.ops = wk[w].ops + 1],
                        ![Other(w)].overlap = @ \/ InFlight(Other(w))]

\* createSession, lines 978-979: the token and the expiry are computed
CreateSessionStart(w) ==
    \E userID \in ConcUserIDs :
        /\ Begin(w, "createSession", "cs_insert", SessionToken(userID, now), userID,
                 [id |-> SessionToken(userID, now), user_id |-> userID,
                  expiry |-> now + SessionTTL])
        /\ UNCHANGED <<now, sessions, concFrame>>

\* createSession, line 980: the INSERT
CreateSessionInsert(w) ==
    /\ wk[w].pc = "cs_insert"
    /\ LET ins == InsertSession(sessions, wk[w].row)
       IN  /\ sessions' = ins.store
           /\ wk' = [wk EXCEPT ![w].pc = "done",
                               ![w].res = IF ins.ok THEN wk[w].row ELSE NoSession,
                               ![w].err = IF ins.ok THEN ErrNone ELSE "constraint"]
    /\ UNCHANGED <<now, concFrame>>

\* GetSession, line 88: the SELECT
GetSessionSelect(w) ==
    \E cookie \in ConcCookies :
        LET rows == SessionRows(sessions, cookie)
        IN  /\ Begin(w, "GetSession", IF rows = {} THEN "done" ELSE "gs_check",
                     cookie, 0, IF rows = {} THEN NoSession ELSE CHOOSE s \in rows : TRUE)
            /\ UNCHANGED <<now, sessions, concFrame>>

\* GetSession, line 93: the expiry test against time.Now()
GetSessionCheck(w) ==
    /\ wk[w].pc = "gs_check"
    /\ wk' = IF IsExpired(wk[w].row.expiry, now)
             THEN [wk EXCEPT ![w].pc = "done", ![w].err = ErrExpired]
             ELSE [wk EXCEPT ![w].pc = "gs_delete"]
    /\ UNCHANGED <<now, sessions, concFrame>>

\* GetSession, line 98: DELETE of the sibling rows
GetSessionDelete(w) ==
    /\ wk[w].pc = "gs_delete"
    /\ sessions' = DeleteOtherSessions(sessions, wk[w].row.user_id, wk[w].tok)
    /\ wk' = [wk EXCEPT ![w].pc = "gs_update"]
    /\ UNCHANGED <<now, concFrame>>

\* GetSession, lines 104-111: UPDATE of the expiry and the return
GetSessionUpdate(w) ==
    /\ wk[w].pc = "gs_update"
    /\ sessions' = UpdateExpiry(sessions, wk[w].tok, now + SessionTTL)
    /\ wk' = [wk EXCEPT ![w].pc = "done",
                        ![w].res = [wk[w].row EXCEPT !.expiry = now + SessionTTL]]
    /\ UNCHANGED <<now, concFrame>>

\* LogoutHandler, line 673: the DELETE
LogoutDelete(w) ==
    \E cookie \in ConcCookies :
        /\ Begin(w, "Logout", "done", cookie, 0, NoSession)
        /\ sessions' = DeleteSession(sessions, cookie)
        /\ UNCHANGED <<now, concFrame>>

\* the handler returns and the worker takes the next request
Return(w) ==
    /\ wk[w].pc = "done"
    /\ wk[w].ops < MaxOps
    /\ wk' = [wk EXCEPT ![w] = [IdleWorker EXCEPT !.ops = wk[w].ops]]
    /\ UNCHANGED <<now, sessions, concFrame>>

ConcTick ==
    /\ now < MaxConcTime
    /\ now' = now + 1
    /\ UNCHANGED <<sessions, concFrame, wk>>

NextConc ==
    \/ ConcTick
    \/ \E w \in Workers : CreateSessionStart(w)
    \/ \E w \in Workers : CreateSessionInsert(w)
    \/ \E w \in Workers : GetSessionSelect(w)
    \/ \E w \in Workers : GetSessionCheck(w)
    \/ \E w \in Workers : GetSessionDelete(w)
    \/ \E w \in Workers : GetSessionUpdate(w)
    \/ \E w \in Workers : LogoutDelete(w)
    \/ \E w \in Workers : Return(w)

\* no worker statement reads table users: the schema flag is fixed
InitConc == Init /\ passwordNotNull

SpecConc == InitConc /\ [][NextConc]_vars

\* SpecLogout: the same worker steps within one instant of the clock
NextLogout ==
    \/ \E w \in Workers : CreateSessionStart(w)
    \/ \E w \in Workers : CreateSessionInsert(w)
    \/ \E w \in Workers : GetSessionSelect(w)
    \/ \E w \in Workers : GetSessionCheck(w)
    \/ \E w \in Workers : GetSessionDelete(w)
    \/ \E w \in Workers : GetSessionUpdate(w)
    \/ \E w \in Workers : LogoutDelete(w)
    \/ \E w \in Workers : Return(w)

SpecLogout == InitConc /\ [][NextLogout]_vars

----------------------------------------------------------------------------
(* SpecIntent: two login or registration attempts run concurrently.  The two *)
(* assignments of HandleGoogleLogin, HandleGoogleRegister and                *)
(* HandleGitHubLogin are one step each, as net/http serves every request on  *)
(* its own goroutine and the package variables are not locked.               *)

AuthorizationHandlers == {"HandleGoogleLogin", "HandleGoogleRegister", "HandleGitHubLogin"}

\* registering = false / registering = true
WriteRegistering(w) ==
    /\ wk[w].pc = "idle"
    /\ wk[w].ops < MaxOps
    /\ \E h \in AuthorizationHandlers :
        LET intent == (h = "HandleGoogleRegister")
        IN  /\ registering' = intent
            /\ wk' = [wk EXCEPT ![w].pc = "nonce", ![w].op = h,
                                ![w].intent = intent, ![w].ops = @ + 1]
    /\ UNCHANGED <<now, storeVars, oauthStateStringGoogle, passwordNotNull,
                   consumed, issued, last>>

\* oauthStateStringGoogle = generateNonce(), then the redirect carrying it
WriteNonce(w) ==
    /\ wk[w].pc = "nonce"
    /\ oauthStateStringGoogle < MaxNonce
    /\ oauthStateStringGoogle' = generateNonce(oauthStateStringGoogle)
    /\ consumed' = FALSE
    /\ wk' = [wk EXCEPT ![w].pc = "redirected", ![w].state = oauthStateStringGoogle']
    /\ UNCHANGED <<now, storeVars, registering, passwordNotNull, issued, last>>

\* the provider sends the browser of attempt w back with the state of its URL
AttemptCallback(w) ==
    /\ wk[w].pc = "redirected"
    /\ Idle
    /\ \E ex \in Exchanges : GoogleCallback(wk[w].state, ex)
    /\ wk' = [wk EXCEPT ![w] = [IdleWorker EXCEPT !.ops = wk[w].ops]]

NextIntent ==
    \/ Tick
    \/ EndRequest
    \/ \E w \in Workers : WriteRegistering(w)
    \/ \E w \in Workers : WriteNonce(w)
    \/ \E w \in Workers : AttemptCallback(w)

SpecIntent == Init /\ [][NextIntent]_vars

----------------------------------------------------------------------------
(* SpecRegister: two registrations run concurrently.  The existence check   *)
(* and the INSERT of registerUser and of getOrCreateUser are one step each;  *)
(* the UPDATE of UpdateUserHandler is a single statement.                    *)

regFrame == <<now, sessions, banned, oauthStateStringGoogle, registering,
              passwordNotNull, consumed, issued, last>>

\* the forms a registration call can work on: the local form with a password
\* hash, the federated profile with a tagged username and no password
RegistrationForms ==
    {[email |-> e, username |-> n, password |-> GenerateFromPassword("secret1")] :
        e \in Emails, n \in FormUsernames}
    \cup {[email |-> e, username |-> TaggedUsername(d, t), password |-> NULL] :
              e \in Emails, d \in DisplayNames, t \in RandomTags}

\* registerUser, lines 354-360, and getOrCreateUser, line 955: the SELECT by email
RegisterCheck(w) ==
    /\ wk[w].pc = "idle"
    /\ wk[w].ops < MaxOps
    /\ \E form \in RegistrationForms :
        LET found == UsersByEmail(users, form.email)
            op == IF form.password = NULL THEN "getOrCreateUser" ELSE "registerUser"
        IN  wk' = [wk EXCEPT
                      ![w] = [IdleWorker EXCEPT
                                 !.op = op, !.form = form,
                                 !.pc = IF found = {} THEN "reg_insert" ELSE "done",
                                 !.err = IF found # {} /\ op = "registerUser"
                                         THEN "user already exists" ELSE ErrNone,
                                 !.uid = IF found = {} THEN 0
                                         ELSE (CHOOSE u \in found : TRUE).id,
                                 !.overlap = InFlight(Other(w)),
                                 !.ops = wk[w].ops + 1],
                      ![Other(w)].overlap = @ \/ InFlight(Other(w))]
    /\ UNCHANGED <<users, lastUserId, regFrame>>

\* saveUser, line 446, and getOrCreateUser, line 959: the INSERT
RegisterInsert(w) ==
    /\ wk[w].pc = "reg_insert"
    /\ LET ins == InsertUser(users, lastUserId, passwordNotNull, wk[w].form.email,
                             wk[w].form.username, wk[w].form.password)
       IN  /\ users' = ins.users
           /\ lastUserId' = ins.lastId
           /\ wk' = [wk EXCEPT ![w].pc = "done", ![w].uid = ins.id,
                               ![w].err = IF ins.ok THEN ErrNone ELSE "constraint"]
    /\ UNCHANGED regFrame

\* UpdateUserHandler, line 1330: the UPDATE
UpdateUserExec ==
    /\ \E userID \in 1..lastUserId, email \in LoginEmails, username \in FormUsernames,
         role \in Roles :
        users' = UpdateUser(users, userID, email, username, role).users
    /\ UNCHANGED <<lastUserId, regFrame, wk>>

\* the call returns and the worker takes the next request
RegisterReturn(w) ==
    /\ wk[w].pc = "done"
    /\ wk[w].ops < MaxOps
    /\ wk' = [wk EXCEPT ![w] = [IdleWorker EXCEPT !.ops = wk[w].ops]]
    /\ UNCHANGED <<users, lastUserId, regFrame>>

NextRegister ==
    \/ \E w \in Workers : RegisterCheck(w)
    \/ \E w \in Workers : RegisterInsert(w)
    \/ \E w \in Workers : RegisterReturn(w)
    \/ UpdateUserExec

SpecRegister == Init /\ [][NextRegister]_vars

----------------------------------------------------------------------------
(* SpecExpiry: the life of a session row past its expiry.  Time passes, every *)
(* request is answered, and the home page keeps being requested; nothing else *)
(* is scheduled, as the program starts no goroutine of its own.               *)

NextExpiry ==
    \/ Tick
    \/ EndRequest
    \/ LoginHandler
    \/ HomeHandler
    \/ LogoutHandler

SpecExpiry ==
    /\ Init
    /\ [][NextExpiry]_vars
    /\ WF_vars(Tick)
    /\ WF_vars(EndRequest)
    /\ WF_vars(HomeHandler)

----------------------------------------------------------------------------
(* Properties *)

\* the handlers that begin with datahandlers.GetSession(r)
GetSessionHandlers ==
    {"HomeHandler", "MyProfileHandler", "LoginHandler", "RegisterHandler"}

LiveSessionsOf(uid) == {s \in SessionsOf(sessions, uid) : ~IsExpired(s.expiry, now)}

SessionOwners == {s.user_id : s \in sessions}

\* C1: in every reachable state the sessions table holds at most one live
\* (unexpired) row per user ID.
C1_SingleLiveSession ==
    \A uid \in SessionOwners : Cardinality(LiveSessionsOf(uid)) <= 1

\* C2: right after the second of two successive createSession calls for one
\* user, the only row of that user is the row of the second call's token.
C2_SecondCreateSessionReplacesFirst ==
    \A i \in 1..(Len(issued) - 1) :
        ( /\ issued[i].tok[1] = "session"
          /\ issued[i + 1].tok[1] = "session"
          /\ issued[i].user_id = issued[i + 1].user_id
          /\ last.setCookie = issued[i + 1].tok )
        => \A s \in SessionsOf(sessions, issued[i + 1].user_id) :
               s.id = issued[i + 1].tok

\* C3: GetSession on a token whose row has expiry > now returns that session
\* with expiry now + 10 minutes, stores the same expiry, and leaves that row
\* as the only row of its user.
C3_ValidateLiveSession ==
    [][ \A s \in sessions :
          ( /\ last'.h \in GetSessionHandlers
            /\ last'.cookie = s.id
            /\ s.expiry > now )
          => /\ last'.err = ErrNone
             /\ last'.sess = [id |-> s.id, user_id |-> s.user_id,
                              expiry |-> now + SessionTTL]
             /\ SessionsOf(sessions', s.user_id) = {last'.sess} ]_vars

\* C3 witness: a validated session came back with its expiry extended past
\* the one it was created with, while an earlier token of the same user had
\* been handed out.
C3_Witness ==
    /\ last.h = "HomeHandler"
    /\ last.sess # NoSession
    /\ now > 0
    /\ last.sess.expiry = now + SessionTTL
    /\ \E i \in 1..Len(issued) :
          /\ issued[i].user_id = last.sess.user_id
          /\ issued[i].tok # last.cookie

\* C4 as stated: GetSession on a token whose row has expiry <= now, the
\* boundary expiry = now included, reports "session expired" and no session.
C4_ExpiredAtOrBeforeNow ==
    [][ \A s \in sessions :
          ( /\ last'.h \in GetSessionHandlers
            /\ last'.cookie = s.id
            /\ s.expiry <= now )
          => /\ last'.err = ErrExpired
             /\ last'.sess = NoSession ]_vars

\* C4 amended: GetSession on a token whose row has expiry < now reports
\* "session expired", returns no session and leaves the table as it was.
C4_ExpiredBeforeNow ==
    [][ \A s \in sessions :
          ( /\ last'.h \in GetSessionHandlers
            /\ last'.cookie = s.id
            /\ s.expiry < now )
          => /\ last'.err = ErrExpired
             /\ last'.sess = NoSession
             /\ s \in sessions' ]_vars

\* C4 witness: a request presented a token whose row is stale and was told so
C4_Witness ==
    /\ last.err = ErrExpired
    /\ \E s \in sessions : s.id = last.cookie /\ s.expiry < now

\* C5: a request whose cookie names an expired or unknown token is served as
\* an anonymous one: the home page is rendered logged out, the profile page
\* redirects to /login, and no error response is sent.
C5_StaleCookieIsAnonymous ==
    (last.err \in {ErrExpired, ErrNoRows}) =>
        /\ last.h = "HomeHandler" => (last.status = 200 /\ ~last.loggedIn)
        /\ last.h = "MyProfileHandler" => (last.status = 303 /\ last.loc = "/login")

\* C6: GetSession on a token that has no row returns no session and no error.
C6_UnknownTokenIsNoError ==
    [][ ( /\ last'.h \in GetSessionHandlers
          /\ last'.cookie # NoCookie
          /\ SessionRows(sessions, last'.cookie) = {} )
        => /\ last'.sess = NoSession
           /\ last'.err = ErrNone ]_vars

\* C7: once a later token has been issued for a user, GetSession never again
\* returns a session for a token issued earlier to the same user.
C7_EarlierTokenIsDead ==
    \A i, j \in 1..Len(issued) :
        ( /\ i < j
          /\ issued[i].user_id = issued[j].user_id
          /\ last.h \in GetSessionHandlers
          /\ last.cookie = issued[i].tok )
        => last.sess = NoSession

\* C8: when two workers have run createSession for the same user at the same
\* time and both calls have returned, exactly one row of that user is left.
C8_ConcurrentCreateOneSurvivor ==
    ( /\ \A w \in Workers : /\ wk[w].pc = "done"
                            /\ wk[w].op = "createSession"
                            /\ wk[w].overlap
      /\ wk["w1"].uid = wk["w2"].uid )
    => Cardinality(SessionsOf(sessions, wk["w1"].uid)) = 1

\* C9: LogoutHandler deletes exactly the row of the presented token and
\* answers with the redirect; with no such row the table is unchanged, and a
\* second logout with the same token changes nothing more.
C9_LogoutIdempotent ==
    [][ ( /\ last'.h = "LogoutHandler"
          /\ last'.cookie # NoCookie )
        => /\ SessionRows(sessions', last'.cookie) = {}
           /\ sessions' = sessions \ SessionRows(sessions, last'.cookie)
           /\ SessionRows(sessions, last'.cookie) = {} => sessions' = sessions
           /\ DeleteSession(sessions', last'.cookie) = sessions'
           /\ last'.status = 303 /\ last'.loc = "/" ]_vars

\* C9 witness: a token that was handed out has been logged out, its row is
\* gone and another session is still in the table
C9_Witness ==
    /\ last.h = "LogoutHandler"
    /\ last.cookie \in IssuedTokens
    /\ SessionRows(sessions, last.cookie) = {}
    /\ sessions # {}

\* C10: a Google callback whose state differs from the pending nonce creates
\* no session row and no user row, sets no cookie and redirects to /.
C10_StateMismatchRejected ==
    [][ ( /\ last'.h = "HandleGoogleCallback"
          /\ last'.state # oauthStateStringGoogle )
        => /\ sessions' = sessions
           /\ users' = users
           /\ issued' = issued
           /\ last'.setCookie = NoCookie
           /\ last'.status = 307 /\ last'.loc = "/" ]_vars

\* C10 witness: a nonce is pending and a callback that presented another
\* state value was sent back to /
C10_Witness ==
    /\ last.h = "HandleGoogleCallback"
    /\ oauthStateStringGoogle > 0
    /\ last.state # oauthStateStringGoogle
    /\ last.status = 307 /\ last.loc = "/"

\* C11: once a Google callback presenting the issued nonce has been accepted,
\* a further callback presenting the same nonce, with no authorization URL
\* built in between, creates no session row and sets no cookie.
C11_NonceConsumedOnce ==
    [][ ( /\ last'.h = "HandleGoogleCallback"
          /\ oauthStateStringGoogle > 0
          /\ consumed
          /\ last'.state = oauthStateStringGoogle )
        => /\ last'.setCookie = NoCookie
           /\ sessions' = sessions ]_vars

\* the callback was turned away by the state test: redirect to / and nothing else
Rejected(r) == r.status = 307 /\ r.loc = "/" /\ r.setCookie = NoCookie

\* C12: when two authorization URLs have been built one after the other, with
\* nonces n1 then n2 and no callback accepted since, a Google callback
\* presenting n1 is rejected and creates no session, and a callback that
\* passes the state test presented n2.
C12_SingleFlight ==
    [][ ( /\ last'.h = "HandleGoogleCallback"
          /\ oauthStateStringGoogle >= 2
          /\ ~consumed )
        => /\ last'.state = oauthStateStringGoogle - 1
              => /\ Rejected(last')
                 /\ sessions' = sessions
                 /\ issued' = issued
           /\ ~Rejected(last') => last'.state = oauthStateStringGoogle ]_vars

\* C12 witness: two URLs were built, no session was ever created, and the
\* callback of the first attempt has just been turned away
C12_Witness ==
    /\ last.h = "HandleGoogleCallback"
    /\ oauthStateStringGoogle = 2
    /\ ~consumed
    /\ issued = <<>>
    /\ last.state = 1
    /\ Rejected(last)

\* the response of the registration branch of a callback
RegisterBranch(r) ==
    \/ r.status = 307 /\ r.loc = "/myprofil"
    \/ r.status = 200 /\ r.loc = "user already exists"

\* the response of the login branch of a callback
LoginBranch(r) ==
    \/ r.status = 303 /\ r.loc = "/"
    \/ r.status = 401

\* C13: the branch a Google callback takes for an attempt is the intent that
\* attempt chose when its authorization URL was built, whatever other
\* attempts' handlers ran in between.
C13_BranchIsAttemptIntent ==
    [][ \A w \in Workers :
          ( /\ wk[w].pc = "redirected"
            /\ wk'[w].pc = "idle"
            /\ last'.h = "HandleGoogleCallback" )
          => /\ RegisterBranch(last') => wk[w].intent
             /\ LoginBranch(last') => ~wk[w].intent ]_vars

\* C14: a registration naming an email that already has a user row (the
\* local form of a request that is not logged in, a Google callback or a
\* GitHub callback with register intent) answers "user already exists",
\* leaves tables users and sessions as they were and sets no cookie.
C14_DuplicateEmailRejected ==
    [][ ( /\ \E u \in users : u.email = last'.email
          /\ \/ last'.h = "RegisterHandler" /\ last'.sess = NoSession
             \/ /\ last'.h \in {"HandleGoogleCallback", "HandleGitHubCallback"}
                /\ registering )
        => /\ last'.status = 200 /\ last'.loc = "user already exists"
           /\ users' = users
           /\ lastUserId' = lastUserId
           /\ sessions' = sessions
           /\ issued' = issued
           /\ last'.setCookie = NoCookie ]_vars

\* C14 witness: the address was registered through a Google callback, and the
\* local form naming it again has been turned down
C14_Witness ==
    /\ last.h = "RegisterHandler"
    /\ last.loc = "user already exists"
    /\ \E u \in users : u.email = last.email /\ u.password = NULL

\* C15: a federated login (the google_oauth form of LoginHandler, or a Google
\* or GitHub callback with login intent) whose exchange returned an email
\* that has no user row answers 401, creates no session row and no user row
\* and sets no cookie.
C15_FederatedLoginUnknownEmail ==
    [][ ( /\ last'.identity # ""
          /\ ~\E u \in users : u.email = last'.identity
          /\ \/ last'.h = "LoginHandler"
             \/ /\ last'.h \in {"HandleGoogleCallback", "HandleGitHubCallback"}
                /\ ~registering )
        => /\ last'.status = 401
           /\ sessions' = sessions
           /\ users' = users
           /\ issued' = issued
           /\ last'.setCookie = NoCookie ]_vars

\* C16: a local login, from a request with no live session, for an email in
\* table banned_users gets the banned page whatever the password: no row is
\* added to sessions, no token is handed out and no cookie is set.
C16_BannedLoginRejected ==
    [][ ( /\ last'.h = "LoginHandler"
          /\ last'.sess = NoSession
          /\ last'.email \in banned )
        => /\ last'.status = 200 /\ last'.loc = "banned"
           /\ sessions' = sessions
           /\ issued' = issued
           /\ last'.setCookie = NoCookie ]_vars

\* C16 witness: the banned address has been registered again, so one of the
\* passwords tried is the right one, and its login got the banned page
C16_Witness ==
    /\ last.h = "LoginHandler"
    /\ last.loc = "banned"
    /\ last.email \in banned
    /\ \E u \in users : /\ u.email = last.email
                        /\ CompareHashAndPassword(u.password, "secret1")

\* C17: when the local registration form has added a user row with a
\* password hash and set a cookie, that row is the only row of its email and
\* the session of the cookie's token is owned by the new row's id.
C17_RegistrationSessionOwner ==
    [][ ( /\ last'.h = "RegisterHandler"
          /\ last'.setCookie # NoCookie
          /\ \E u \in users' \ users : u.password # NULL )
        => \E u \in users' \ users :
              /\ u.email = last'.email
              /\ UsersByEmail(users', last'.email) = {u}
              /\ \E s \in sessions' : s.id = last'.setCookie /\ s.user_id = u.id ]_vars

\* C18: a Google or GitHub callback with register intent for an email that
\* has no user row either completes (a new user row, a new session row owned
\* by it, its token in the cookie) or, when the INSERT into users or the
\* INSERT into sessions fails, answers with an error, sets no cookie and
\* leaves no new session row.
C18_NoPartialRegistration ==
    [][ ( /\ last'.h \in {"HandleGoogleCallback", "HandleGitHubCallback"}
          /\ registering
          /\ last'.identity # ""
          /\ ~\E u \in users : u.email = last'.identity )
        => \/ \E u \in users' \ users, s \in sessions' \ sessions :
                 /\ u.email = last'.identity
                 /\ s.user_id = u.id
                 /\ s.id = last'.setCookie
           \/ /\ sessions' = sessions
              /\ last'.setCookie = NoCookie
              /\ last'.status = 500 ]_vars

\* C19: table banned_users grows, and a user row is deleted, only in a step
\* of DeleteUserHandler whose request carries the token of an unexpired
\* session owned by a user with role admin.
C19_BanOnlyByAdmin ==
    [][ ( \/ banned' # banned
          \/ \E u \in users : u \notin users' )
        => /\ last'.h = "DeleteUserHandler"
           /\ \E s \in sessions :
                 /\ s.id = last'.cookie
                 /\ ~IsExpired(s.expiry, now)
                 /\ CheckIfAdmin(users, s.user_id).isAdmin ]_vars

\* C20: whichever statement of DeleteUserHandler fails or none, the step
\* either deletes the target's row and leaves its email in banned_users
\* (the answer is the redirect to /admin), or keeps the row and leaves
\* banned_users as it was (the answer is an error).
C20_DeleteAndBanAtomic ==
    [][ last'.h = "DeleteUserHandler"
        => \A u \in users :
              u.id = last'.target
              => \/ /\ u \notin users'
                    /\ u.email \in banned'
                    /\ last'.status = 303
                 \/ /\ u \in users'
                    /\ banned' = banned
                    /\ last'.status = 500 ]_vars

\* C20 witness: a DeleteUserHandler request for an existing user ended with
\* an error, the row is still there and its email is not banned
C20_Witness ==
    /\ last.h = "DeleteUserHandler"
    /\ last.status = 500
    /\ \E u \in users : u.id = last.target /\ u.email \notin banned

\* C21: an email that is in banned_users stays there: no step of any handler
\* and no passing of time removes an entry.
C21_BanNeverExpires ==
    [][ \A e \in banned : e \in banned' ]_vars

\* C21 witness: two addresses are banned, the clock has run to its end since,
\* and one of them has been registered again
C21_Witness ==
    /\ Cardinality(banned) = 2
    /\ now = MaxTime
    /\ \E u \in users : u.email \in banned

CallUser(r) == IF r.op = "createSession" THEN r.uid ELSE r.tok[2]

\* C23: a statement a worker runs for one user (of createSession, GetSession
\* or the DELETE of LogoutHandler), however the two workers interleave,
\* leaves the session rows owned by every other user as they were.
C23_OtherUsersUntouched ==
    [][ \A w \in Workers :
          wk'[w].pc # wk[w].pc
          => LET u == CallUser(IF wk[w].pc = "idle" THEN wk'[w] ELSE wk[w])
             IN  {s \in sessions' : s.user_id # u} = {s \in sessions : s.user_id # u} ]_vars

\* C23 witness: a GetSession call has deleted the sibling rows of its user
\* while the other worker's call was in flight and another user held a row
C23_Witness ==
    \E w \in Workers :
        /\ wk[w].pc = "gs_update"
        /\ wk[w].overlap
        /\ InFlight(Other(w))
        /\ \E s \in sessions : s.user_id # wk[w].row.user_id

\* C24: the cookie a login or registration answers with is HTTP-only, has
\* path "/" and carries an Expires equal to the expiry stored in the row of
\* the session it names.
C24_CookieAttributes ==
    (last.setCookie \notin {NoCookie, EmptyToken})
    => /\ last.attrs.httpOnly
       /\ last.attrs.path = RootPath
       /\ \A s \in sessions : s.id = last.setCookie => last.attrs.expires = s.expiry

\* C25: when GET /user carries an email, getEmailAndNameFromGitHub returns it
\* and makes no call to /user/emails; when it carries none, one call is made
\* and the email returned is that of the first entry of the list that is
\* primary and verified.
C25_GitHubEmailSelection ==
    (last.h = "getEmailAndNameFromGitHub")
    => /\ last.gh.profile # "" => (last.identity = last.gh.profile /\ last.gh.calls = 0)
       /\ last.gh.profile = ""
          => /\ last.gh.calls = 1
             /\ \A i \in 1..Len(last.gh.emails) :
                   ( /\ last.gh.emails[i].primary /\ last.gh.emails[i].verified
                     /\ \A j \in 1..(i - 1) : ~( /\ last.gh.emails[j].primary
                                                /\ last.gh.emails[j].verified ) )
                   => last.identity = last.gh.emails[i].email

\* C25 witness: the profile had no email, the first entry of the list is
\* primary but not verified, and the second entry's address was taken
C25_Witness ==
    /\ last.h = "getEmailAndNameFromGitHub"
    /\ last.gh.profile = ""
    /\ Len(last.gh.emails) = 2
    /\ last.gh.emails[1].primary /\ ~last.gh.emails[1].verified
    /\ last.gh.emails[1].email # last.gh.emails[2].email
    /\ last.identity = last.gh.emails[2].email

\* C26: the token a response sets in the cookie cannot be computed from the
\* user ID of its session and the time of the request: it differs from the
\* value an observer derives from those two.
C26_TokenUnpredictable ==
    \A s \in sessions :
        (last.setCookie = s.id /\ s.expiry = now + SessionTTL)
        => last.setCookie # SessionToken(s.user_id, now)

\* C27: in every reachable state the role of every row of table users is
\* user or admin.
C27_RoleIsUserOrAdmin ==
    \A u \in users : u.role \in {"user", "admin"}

\* C28: in every reachable state no two rows of table users share an email,
\* also after two registrations for one email have both passed the existence
\* check before either INSERT ran, and after an UPDATE changed a row's email.
C28_EmailUnique ==
    \A u, v \in users : u.email = v.email => u.id = v.id

\* C28 witness: two registrations for one email ran at the same time, both
\* passed the existence check, and the INSERT of the second was refused
\* although its username was free
C28_Witness ==
    \E w \in Workers :
        /\ wk[w].pc = "done"
        /\ wk[w].overlap
        /\ wk[w].err = "constraint"
        /\ wk[Other(w)].form.email = wk[w].form.email
        /\ \E u \in users : u.email = wk[w].form.email
        /\ \A u \in users : u.username # wk[w].form.username
        /\ ~passwordNotNull


\* C29: a federated login (a callback taken with login intent) never creates
\* a session owned by an account that carries a password hash.
C29_FederatedLoginNotLocal ==
    [][ ( /\ last'.h \in {"HandleGoogleCallback", "HandleGitHubCallback"}
          /\ last'.identity # ""
          /\ ~registering )
        => \A s \in sessions' \ sessions :
               ~\E u \in users : u.id = s.user_id /\ u.password # NULL ]_vars


\* C30: when two GetSession calls run at the same time on two different live
\* tokens of one user, they do not both return a session, and the user keeps a
\* row of sessions whenever one of them has returned a session.
C30_ValidateAtomic ==
    \A w \in Workers :
        LET v == Other(w)
        IN  ( /\ wk[w].op = "GetSession" /\ wk[v].op = "GetSession"
              /\ wk[w].pc = "done" /\ wk[v].pc = "done"
              /\ wk[w].overlap /\ wk[v].overlap
              /\ wk[w].tok # wk[v].tok
              /\ wk[w].row # NoSession /\ wk[v].row # NoSession
              /\ wk[w].row.user_id = wk[v].row.user_id
              /\ wk[w].res # NoSession )
            => /\ wk[v].res = NoSession
               /\ SessionsOf(sessions, wk[w].row.user_id) # {}


\* C31: a GetSession on a token whose stored expiry is before now returns no
\* session and does not extend the expiry, and a row whose expiry is before
\* now is eventually removed from table sessions.
C31_ExpiredSessionDestroyed ==
    /\ [][ \A s \in sessions :
             ( /\ last'.h \in GetSessionHandlers
               /\ last'.cookie = s.id
               /\ s.expiry < now )
             => /\ last'.sess = NoSession
                /\ \A r \in SessionRows(sessions', s.id) : r.expiry = s.expiry ]_vars
    /\ \A n \in 1..MaxIssued :
          (\E s \in sessions : s.id = UuidToken(n) /\ s.expiry < now)
              ~> (SessionRows(sessions, UuidToken(n)) = {})


\* C32: the DELETE of a logout leaves no row of its token; no step of a
\* GetSession call, the UPDATE of a call that was in flight during the logout
\* included, puts a row back for a token that has none; and a GetSession call
\* that starts on a token with no row returns no session.
C32_NoSessionAfterLogout ==
    [][ \A w \in Workers :
          /\ ( wk[w].pc = "idle" /\ wk'[w].op = "Logout" )
             => SessionRows(sessions', wk'[w].tok) = {}
          /\ ( wk'[w].op = "GetSession" /\ wk'[w] # wk[w] )
             => \A t \in ConcCookies :
                   SessionRows(sessions, t) = {} => SessionRows(sessions', t) = {}
          /\ ( /\ wk[w].pc = "idle" /\ wk'[w].op = "GetSession"
               /\ SessionRows(sessions, wk'[w].tok) = {} )
             => wk'[w].pc = "done" /\ wk'[w].res = NoSession ]_vars

\* C32 witness: a GetSession call read its row, the logout of the same token
\* then completed, the call ran its UPDATE and returned, and the token has no
\* row
C32_Witness ==
    \E w \in Workers :
        /\ wk[w].op = "GetSession" /\ wk[w].pc = "done" /\ wk[w].res # NoSession
        /\ wk[Other(w)].op = "Logout" /\ wk[Other(w)].pc = "done"
        /\ wk[Other(w)].tok = wk[w].tok
        /\ SessionRows(sessions, wk[w].tok) = {}


\* C33: a POST /login with email and password that reaches the credentials
\* test, and names an email with no user row or gives a password that does
\* not verify against the stored hash, leaves table sessions as it was, hands
\* out no token and sets no session cookie.
C33_FailedLoginNoSession ==
    [][ ( /\ last'.h = "LoginHandler"
          /\ last'.password # ""
          /\ \/ ~\E u \in users : u.email = last'.email
             \/ \E u \in users : /\ u.email = last'.email
                                 /\ u.password # GenerateFromPassword(last'.password) )
        => /\ sessions' = sessions
           /\ issued' = issued
           /\ last'.setCookie = NoCookie ]_vars

\* C33 witness: a login with the admin's email and another password was
\* refused while a session of an earlier, successful login is in the table
C33_Witness ==
    /\ last.h = "LoginHandler"
    /\ last.email = AdminEmail
    /\ last.password # "" /\ last.password # AdminPassword
    /\ last.loc = "invalid"
    /\ sessions # {}


\* C34: in every reachable state the user_id of every row of sessions is the
\* id of a row of users.
C34_SessionOwnerExists ==
    \A s \in sessions : \E u \in users : u.id = s.user_id


\* C35: the email, username or role of a user row changes only in a step of
\* UpdateUserHandler whose request carries the token of an unexpired session
\* owned by a user with role admin.
C35_UpdateOnlyByAdmin ==
    [][ ( \E u \in users : \E v \in users' :
              /\ v.id = u.id
              /\ <<v.email, v.username, v.role>> # <<u.email, u.username, u.role>> )
        => /\ last'.h = "UpdateUserHandler"
           /\ \E s \in sessions :
                 /\ s.id = last'.cookie
                 /\ ~IsExpired(s.expiry, now)
                 /\ CheckIfAdmin(users, s.user_id).isAdmin ]_vars


\* C36: a step of HandleGitHubLogin or HandleFacebookLogin leaves the pending
\* Google nonce and the remembered intent as they were.
C36_NonceProviderScoped ==
    [][ last'.h \in {"HandleGitHubLogin", "HandleFacebookLogin"}
        => /\ oauthStateStringGoogle' = oauthStateStringGoogle
           /\ registering' = registering ]_vars


\* C37: while no authorization URL has been built since the start of the
\* process, a Google callback creates no session row and sets no cookie,
\* whatever state value it presents, the empty one included.
C37_NoNonceNoSession ==
    [][ ( /\ last'.h = "HandleGoogleCallback"
          /\ oauthStateStringGoogle = 0 )
        => /\ sessions' = sessions
           /\ last'.setCookie = NoCookie ]_vars


\* C38: a row is added to table users only by a step of RegisterHandler or by
\* a Google or GitHub callback taken with register intent.
C38_UserRowsOnlyByRegistration ==
    [][ ( \E v \in users' : \A u \in users : u.id # v.id )
        => \/ last'.h = "RegisterHandler"
           \/ /\ last'.h \in {"HandleGoogleCallback", "HandleGitHubCallback"}
              /\ registering ]_vars


\* C39: the username of every row a federated flow adds to table users (a row
\* with no password) is the lower-cased display name with the spaces removed,
\* followed by a random tag.
C39_FederatedUsernameTagged ==
    [][ \A v \in users' :
          ( /\ \A u \in users : u.id # v.id
            /\ v.password = NULL )
          => \E d \in DisplayNames, t \in RandomTags :
                 v.username = TaggedUsername(d, t) ]_vars

====
